---- MODULE Spec2Model ----
(***************************************************************************)
(* Aggregation and ranking pipelines of the NREGS report generators        *)
(* (area_officer_inspection.py, work_management.py, zero_muster.py).       *)
(*                                                                         *)
(* Values.  Every Python value is a record tagged with its runtime type:   *)
(*   [t |-> "float", v |-> m]   a float, m in thousandths (6004 = 6.004)   *)
(*   [t |-> "int",   v |-> m]   an int, also in thousandths (3000 = 3)     *)
(*   [t |-> "str",   v |-> s]   a string                                   *)
(*   [t |-> "None"]             None                                       *)
(* A Record (one district or block) is a TLA+ record from field names to   *)
(* such values.  A response is [t |-> "None"] (a failed fetch) or a record *)
(* tagged t = "dict" whose remaining fields are the keys of the JSON body. *)
(***************************************************************************)
EXTENDS Integers, Sequences, FiniteSets, TLC

VARIABLES
    module,   \* which of the three scripts runs: "inspection", "work", "zero"
    data,     \* the response handed to the aggregator (mutated in place)
    source,   \* the response exactly as the data source supplied it
    primary,  \* the list sorted() returned, as indices into results
    order,    \* the aggregator's final sorted list, as indices into results
    ret,      \* what the aggregator call produced
    pc,       \* "ready", then the name of the aggregator that ran
    stage,            \* where main() stands; "direct" when an aggregator is
                      \* called on its own, without main()
    district,         \* main's district argument
    output_format,    \* main's output_format argument
    state_data,       \* main's state_data once the state aggregator has run
    processed_state_data,
    result,           \* main's result dict while it is built
    analysis,         \* what generate_*_analysis returned
    trace,            \* the stages executed so far, each with how it ended
    requests,         \* number of client.messages.create calls issued
    files,            \* the files written so far, by kind
    outcome           \* what main() produced

aggvars == <<module, data, source, primary, order, ret, pc>>
mainvars == <<stage, district, output_format, state_data,
              processed_state_data, result, analysis, requests, files,
              outcome>>
vars == <<aggvars, mainvars, trace>>

\* ------------------------------------------------------------------ bounds
MaxLen == 3

\* ------------------------------------------------------------------ values
None == [t |-> "None"]
StrV(s) == [t |-> "str", v |-> s]
FloatV(m) == [t |-> "float", v |-> m]
IntV(n) == [t |-> "int", v |-> n * 1000]

Names == {"A", "B", "C"}
MetricValues == {4000, 6000, 6004}
\* total_visit_marks (thousandths), dpc_ws_visited, adpc_ws_visited
Inspections ==
    {<<6000, 3, 2>>, <<6000, 1, 1>>, <<6004, 0, 0>>, <<4000, 0, 0>>, <<4000, 1, 0>>}

\* Python's dict.get(key, default)
Get(d, key, default) == IF key \in DOMAIN d THEN d[key] ELSE default

\* Round2 that always goes up to the next hundredth
Round2Up(m) == m - (m % 10) + 10

\* Python's round(x, 2) on a value held in thousandths: to the nearest
\* hundredth, a tie going to the even hundredth.
Round2(m) ==
    LET q == m \div 10
        r == m % 10
    IN  IF r < 5 THEN q * 10
        ELSE IF r > 5 THEN (q + 1) * 10
        ELSE IF q % 2 = 0 THEN q * 10 ELSE (q + 1) * 10


\* ------------------------------------------------------- normalization
\* NormalizeRecord that rounds every number, whole ones too: round(float(value), 2)
NormalizeRecordEveryNumber(rec) ==
    [k \in DOMAIN rec |->
        IF rec[k].t \in {"float", "int"} THEN FloatV(Round2(rec[k].v)) ELSE rec[k]]

\* for key, value in district.items():
\*     if isinstance(value, float): district[key] = round(value, 2)
NormalizeRecord(rec) ==
    [k \in DOMAIN rec |->
        IF rec[k].t = "float" THEN FloatV(Round2(rec[k].v)) ELSE rec[k]]

\* The records left as they came, the rounding loop skipped
NotNormalized(results) == results

\* for district in data['results']: ...   (every record, in place)
Normalize(results) ==
    [i \in 1..Len(results) |-> NormalizeRecord(results[i])]

\* ------------------------------------------------------------- sorting
\* The key function of sorted(): lambda x: x.get(key, default)
SortKey(rec, key, default) == Get(rec, key, IntV(default)).v

\* InsertStable with the direction of the sort lost: always ascending
InsertAscending(s, i, results, key, default, reverse) ==
    LET ki == SortKey(results[i], key, default)
        p == Cardinality({j \in 1..Len(s) : SortKey(results[s[j]], key, default) <= ki})
    IN  SubSeq(s, 1, p) \o <<i>> \o SubSeq(s, p + 1, Len(s))

\* InsertStable without the stability: the element goes in front of the
\* elements with an equal key
InsertBeforeEquals(s, i, results, key, default, reverse) ==
    LET ki == SortKey(results[i], key, default)
        stays(j) == IF reverse
                    THEN SortKey(results[s[j]], key, default) > ki
                    ELSE SortKey(results[s[j]], key, default) < ki
        p == Cardinality({j \in 1..Len(s) : stays(j)})
    IN  SubSeq(s, 1, p) \o <<i>> \o SubSeq(s, p + 1, Len(s))

\* One element placed into an already sorted list of indices, behind every
\* element that may not come after it (sorted() is stable, also with
\* reverse=True: equal keys keep their input order).
InsertStable(s, i, results, key, default, reverse) ==
    LET ki == SortKey(results[i], key, default)
        stays(j) == IF reverse
                    THEN SortKey(results[s[j]], key, default) >= ki
                    ELSE SortKey(results[s[j]], key, default) <= ki
        p == Cardinality({j \in 1..Len(s) : stays(j)})
    IN  SubSeq(s, 1, p) \o <<i>> \o SubSeq(s, p + 1, Len(s))

RECURSIVE SortLoop(_, _, _, _, _, _)
SortLoop(s, i, results, key, default, reverse) ==
    IF i > Len(results) THEN s
    ELSE SortLoop(InsertStable(s, i, results, key, default, reverse),
                  i + 1, results, key, default, reverse)

\* sorted(data['results'], key=lambda x: x.get(key, default), reverse=...)
\* as the sequence of the indices of the records, best first.
Sorted(results, key, default, reverse) ==
    SortLoop(<<>>, 1, results, key, default, reverse)

\* ----------------------------------------------------- tie-break pass
\* dpc_ws_visited + adpc_ws_visited of one record
TotalVisits(rec) == rec.dpc_ws_visited.v + rec.adpc_ws_visited.v

Swap(s, i) ==
    [j \in 1..Len(s) |-> IF j = i THEN s[i + 1] ELSE IF j = i + 1 THEN s[i] ELSE s[j]]

\* TieBreakStep as the insertion step of a full re-sort: the entry at i+1
\* climbs over every entry right above it that has equal marks and fewer
\* visits, not just over one
TieBreakStepInsertion(s, i, results) ==
    LET x == results[s[i + 1]]
        below(k) == \A j \in k..i :
                        /\ results[s[j]].total_visit_marks.v = x.total_visit_marks.v
                        /\ TotalVisits(results[s[j]]) < TotalVisits(x)
        ks == {k \in 1..i : below(k)}
    IN  IF ks = {} THEN s
        ELSE LET k == CHOOSE a \in ks : \A b \in ks : a <= b
             IN  SubSeq(s, 1, k - 1) \o <<s[i + 1]>> \o SubSeq(s, k, i)
                 \o SubSeq(s, i + 2, Len(s))

\* TieBreakStep that looks at the visits alone, whatever the marks
TieBreakStepAnyMarks(s, i, results) ==
    IF TotalVisits(results[s[i]]) < TotalVisits(results[s[i + 1]])
    THEN Swap(s, i)
    ELSE s

\* TieBreakStep that compares and never exchanges
TieBreakStepNoSwap(s, i, results) == s

\* TieBreakStep with the comparison of the visits turned around
TieBreakStepWrongWay(s, i, results) ==
    IF /\ results[s[i]].total_visit_marks.v = results[s[i + 1]].total_visit_marks.v
       /\ TotalVisits(results[s[i]]) > TotalVisits(results[s[i + 1]])
    THEN Swap(s, i)
    ELSE s

\* The body of the loop for one i (1-based): the two entries now at i and
\* i+1 are exchanged when their marks are equal and the first has fewer visits.
TieBreakStep(s, i, results) ==
    IF /\ results[s[i]].total_visit_marks.v = results[s[i + 1]].total_visit_marks.v
       /\ TotalVisits(results[s[i]]) < TotalVisits(results[s[i + 1]])
    THEN Swap(s, i)
    ELSE s

RECURSIVE TieBreakLoop(_, _, _)
TieBreakLoop(s, i, results) ==
    IF i > Len(s) - 1 THEN s
    ELSE TieBreakLoop(TieBreakStep(s, i, results), i + 1, results)

\* for i in range(len(sorted_districts) - 1): ...
TieBreakPass(s, results) == TieBreakLoop(s, 1, results)

\* The records behind a list of indices
Listed(s, results) == [i \in 1..Len(s) |-> results[s[i]]]

\* -------------------------------------------------------------- ranks
RECURSIVE RankLoop(_, _, _)
RankLoop(ranks, i, sorted) ==
    IF i > Len(sorted) THEN ranks
    ELSE LET name == sorted[i].group_name.v
         IN  RankLoop([n \in DOMAIN ranks \cup {name} |->
                          IF n = name THEN i ELSE ranks[n]],
                      i + 1, sorted)

\* DistrictRanks without the + 1: ranks counted from 0
DistrictRanksZeroBased(sorted) ==
    LET r == RankLoop([n \in {} |-> 0], 1, sorted)
    IN  [n \in DOMAIN r |-> r[n] - 1]

\* district_ranks = {}
\* for i, district in enumerate(sorted_districts):
\*     district_ranks[district['group_name']] = i + 1
DistrictRanks(sorted) == RankLoop([n \in {} |-> 0], 1, sorted)

\* ----------------------------------------------------------- averages
RECURSIVE SumV(_, _)
SumV(xs, i) == IF i > Len(xs) THEN 0 ELSE xs[i].v + SumV(xs, i + 1)

\* p / d rounded to the nearest integer, a tie going to the even one
RoundQuot(p, d) ==
    LET q == p \div d
        r == p % d
    IN  IF 2 * r < d THEN q
        ELSE IF 2 * r > d THEN q + 1
        ELSE IF q % 2 = 0 THEN q ELSE q + 1

\* [d.get(key, 0) for d in data['results']]
Column(results, key) == [i \in 1..Len(results) |-> Get(results[i], key, IntV(0))]

\* MeanRound2 that cuts the mean off after two decimals instead of rounding
MeanTruncated(xs) ==
    LET total == SumV(xs, 1)
        n == Len(xs)
        m == 10 * (total \div (10 * n))
    IN  IF (\A i \in 1..n : xs[i].t = "int") /\ total % (1000 * n) = 0
        THEN [t |-> "int", v |-> m]
        ELSE FloatV(m)

\* round(statistics.mean(xs), 2) of a non-empty list: the exact mean of the
\* values, rounded to hundredths; an int only when every value is an int
\* and the mean is whole.
MeanRound2(xs) ==
    LET total == SumV(xs, 1)
        n == Len(xs)
        m == 10 * RoundQuot(total, 10 * n)
    IN  IF (\A i \in 1..n : xs[i].t = "int") /\ total % (1000 * n) = 0
        THEN [t |-> "int", v |-> m]
        ELSE FloatV(m)

\* round(statistics.mean([d.get(key, 0) for d in data['results']]), 2)
Average(results, key) == MeanRound2(Column(results, key))

\* statistics.mean raises StatisticsError when given no data point
MeanRaises(results) == Len(results) = 0


\* The value forwarded as it came, without round(x, 2)
NotRounded(x) == x

\* round(x, 2) of a number: a float is rounded, an int comes back as it is
RoundValue(x) == IF x.t = "float" THEN FloatV(Round2(x.v)) ELSE x

\* ------------------------------------------------------- call outcomes
Pending == [kind |-> "pending"]
\* data['results'] read from a response that has no such key
RaiseKeyError == [kind |-> "raise", error |-> "KeyError"]
ReturnNone == [kind |-> "None"]
Return(value) == [kind |-> "return", value |-> value]
Raise(error) == [kind |-> "raise", error |-> error]

\* Python truthiness of a response: None and the empty dict are falsy
Truthy(d) == d.t # "None" /\ DOMAIN d # {"t"}

\* Invalid that also turns away an empty results list
InvalidOrEmpty(d) ==
    \/ ~Truthy(d)
    \/ "results" \notin DOMAIN d
    \/ Len(d.results) = 0

\* if not data or 'results' not in data: return None
Invalid(d) == ~Truthy(d) \/ "results" \notin DOMAIN d

\* --------------------------------------------------------------- inputs
Modules == {"inspection", "work", "zero"}

InspectionRecords ==
    {[group_name |-> StrV(n), total_visit_marks |-> FloatV(p[1]),
      dpc_ws_visited |-> IntV(p[2]), adpc_ws_visited |-> IntV(p[3])] :
        n \in Names, p \in Inspections}

WorkRecords ==
    {[group_name |-> StrV(n), work_management_total |-> FloatV(m)] :
        n \in Names, m \in MetricValues}

ZeroRecords ==
    {[group_name |-> StrV(n), zero_attendance_percentage |-> FloatV(m)] :
        n \in Names, m \in MetricValues}

Collections(R) == UNION {[1..n -> R] : n \in 0..MaxLen}

RangeStarts == {StrV("2025-04-01")}
RangeEnds == {StrV("2025-04-30")}
StateAvgs == {FloatV(5004), FloatV(4250)}
StateAvgPairs == {p \in StateAvgs \X StateAvgs : p[1] # p[2]}

\* What requests.get(url).json() can hand over on status 200, and None for
\* a failed fetch.
Responses(m) ==
    {None, [t |-> "dict"], [t |-> "dict", error |-> StrV("no data")]} \cup
    CASE m = "inspection" ->
           {[t |-> "dict", results |-> c, range_start |-> a, range_end |-> b] :
               c \in Collections(InspectionRecords), a \in RangeStarts, b \in RangeEnds}
      [] m = "work" ->
           {[t |-> "dict", results |-> c, state_avg_prev |-> p[1], state_avg_curr |-> p[2]] :
               c \in Collections(WorkRecords), p \in StateAvgPairs}
      [] m = "zero" ->
           {[t |-> "dict", results |-> c] : c \in Collections(ZeroRecords)}

Init ==
    /\ module \in Modules
    /\ data \in Responses(module)
    /\ source = data
    /\ primary = <<>>
    /\ order = <<>>
    /\ ret = Pending
    /\ pc = "ready"
    /\ stage = "direct"
    /\ district = None
    /\ output_format = "text"
    /\ state_data = None
    /\ processed_state_data = None
    /\ result = None
    /\ analysis = None
    /\ trace = <<>>
    /\ requests = 0
    /\ files = <<>>
    /\ outcome = Pending

\* ---------------------------------------------------------- inspection
InspectionAverages(results) ==
    [dpc_ws_visited |-> Average(results, "dpc_ws_visited"),
     adpc_ws_visited |-> Average(results, "adpc_ws_visited"),
     dpc_marks |-> Average(results, "dpc_marks"),
     adpc_marks |-> Average(results, "adpc_marks"),
     total_marks |-> Average(results, "total_visit_marks")]

DateRange(d) ==
    [start |-> Get(d, "range_start", StrV("")), end |-> Get(d, "range_end", StrV(""))]

process_state_inspection_data ==
    /\ pc = "ready" /\ module = "inspection"
    /\ stage \in {"direct", "aggregate-state"}
    /\ pc' = "process_state_inspection_data"
    /\ IF Invalid(data)
       THEN /\ ret' = ReturnNone
            /\ UNCHANGED <<data, primary, order>>
       ELSE \E results \in {Normalize(data.results)} :
            \E by_marks \in {Sorted(results, "total_visit_marks", 0, TRUE)} :
            \E ranked \in {TieBreakPass(by_marks, results)} :
            \E sorted_districts \in {Listed(ranked, results)} :
                /\ data' = [data EXCEPT !.results = results]
                /\ primary' = by_marks
                /\ order' = ranked
                /\ ret' = IF Len(sorted_districts) = 0
                          THEN Raise("IndexError")
                          ELSE Return(
                            [top_district |-> sorted_districts[1],
                             bottom_district |-> sorted_districts[Len(sorted_districts)],
                             state_averages |-> InspectionAverages(results),
                             district_ranks |-> DistrictRanks(sorted_districts),
                             total_districts |-> Len(sorted_districts),
                             date_range |-> DateRange(data)])
    /\ trace' = Append(trace, [op |-> pc', result |-> ret'.kind, ranked |-> order'])
    /\ UNCHANGED <<module, source, mainvars>>

\* EmptinessGuard with the inspection module's guard left out
EmptinessGuardZeroOnly(m) == m = "zero"

\* sorted_blocks[0] if sorted_blocks else None, sorted_blocks[-1] if ...:
\* whether the module guards its best/worst selection against an empty list
EmptinessGuard(m) == m \in {"inspection", "zero"}

\* SelectBlock that takes the first block for the worst one as well
SelectFirstBlock(m, sorted_blocks, first) ==
    IF Len(sorted_blocks) = 0
    THEN [kind |-> "None"]
    ELSE [kind |-> "block", block |-> sorted_blocks[1]]

\* The best (first) or worst (last) block as the module selects it
SelectBlock(m, sorted_blocks, first) ==
    IF Len(sorted_blocks) = 0
    THEN IF EmptinessGuard(m) THEN [kind |-> "None"] ELSE Raise("IndexError")
    ELSE [kind |-> "block",
          block |-> sorted_blocks[IF first THEN 1 ELSE Len(sorted_blocks)]]

\* block['group_name'] if block else None
BlockName(sel) == IF sel.kind = "block" THEN sel.block.group_name ELSE None

\* block.get(key, 0) if block else 0
BlockMetric(sel, key) == IF sel.kind = "block" THEN Get(sel.block, key, IntV(0)) ELSE IntV(0)

process_district_inspection_data ==
    /\ pc = "ready" /\ module = "inspection"
    /\ stage \in {"direct", "aggregate-entity"}
    /\ pc' = "process_district_inspection_data"
    /\ IF Invalid(data)
       THEN /\ ret' = ReturnNone
            /\ UNCHANGED <<data, primary, order>>
       ELSE \E results \in {Normalize(data.results)} :
            \E by_marks \in {Sorted(results, "total_visit_marks", 0, TRUE)} :
            \E ranked \in {TieBreakPass(by_marks, results)} :
            \E sorted_blocks \in {Listed(ranked, results)} :
            \E highest_block \in {SelectBlock("inspection", sorted_blocks, TRUE)} :
            \E lowest_block \in {SelectBlock("inspection", sorted_blocks, FALSE)} :
                /\ data' = [data EXCEPT !.results = results]
                /\ primary' = by_marks
                /\ order' = ranked
                /\ ret' = IF MeanRaises(results)
                          THEN Raise("StatisticsError")
                          ELSE Return(
                            [blocks |-> sorted_blocks,
                             district_summary |->
                               [total_blocks |-> Len(results),
                                average_dpc_ws_visited |-> Average(results, "dpc_ws_visited"),
                                average_adpc_ws_visited |-> Average(results, "adpc_ws_visited"),
                                average_dpc_marks |-> Average(results, "dpc_marks"),
                                average_adpc_marks |-> Average(results, "adpc_marks"),
                                average_total_marks |-> Average(results, "total_visit_marks"),
                                highest_performing_block |-> BlockName(highest_block),
                                highest_total_marks |-> BlockMetric(highest_block, "total_visit_marks"),
                                lowest_performing_block |-> BlockName(lowest_block),
                                lowest_total_marks |-> BlockMetric(lowest_block, "total_visit_marks"),
                                date_range |-> DateRange(data)]])
    /\ trace' = Append(trace, [op |-> pc', result |-> ret'.kind, ranked |-> order'])
    /\ UNCHANGED <<module, source, mainvars>>

\* ------------------------------------------------------ work management
process_state_work_data ==
    /\ pc = "ready" /\ module = "work"
    /\ stage \in {"direct", "aggregate-state"}
    /\ pc' = "process_state_work_data"
    /\ IF Invalid(data)
       THEN /\ ret' = ReturnNone
            /\ UNCHANGED <<data, primary, order>>
       ELSE \E results \in {Normalize(data.results)} :
            \E state_avg_prev \in {RoundValue(Get(data, "state_avg_prev", IntV(0)))} :
            \E state_avg_curr \in {RoundValue(Get(data, "state_avg_curr", IntV(0)))} :
            \E ranked \in {Sorted(results, "work_management_total", 0, TRUE)} :
            \E sorted_districts \in {Listed(ranked, results)} :
                /\ data' = [data EXCEPT !.results = results]
                /\ primary' = ranked
                /\ order' = ranked
                /\ ret' = IF Len(sorted_districts) = 0
                          THEN Raise("IndexError")
                          ELSE Return(
                            [top_district |-> sorted_districts[1],
                             bottom_district |-> sorted_districts[Len(sorted_districts)],
                             state_averages |->
                               [prev_completion |-> Average(results, "prev_completion"),
                                curr_completion |-> Average(results, "curr_completion"),
                                marks_prev |-> Average(results, "marks_prev"),
                                marks_curr |-> Average(results, "marks_curr"),
                                total_marks |-> Average(results, "work_management_total"),
                                state_avg_prev |-> state_avg_prev,
                                state_avg_curr |-> state_avg_curr],
                             district_ranks |-> DistrictRanks(sorted_districts),
                             total_districts |-> Len(sorted_districts)])
    /\ trace' = Append(trace, [op |-> pc', result |-> ret'.kind, ranked |-> order'])
    /\ UNCHANGED <<module, source, mainvars>>

process_district_work_data ==
    /\ pc = "ready" /\ module = "work"
    /\ stage \in {"direct", "aggregate-entity"}
    /\ pc' = "process_district_work_data"
    /\ IF Invalid(data)
       THEN /\ ret' = ReturnNone
            /\ UNCHANGED <<data, primary, order>>
       ELSE \E results \in {Normalize(data.results)} :
            \E state_avg_prev \in {RoundValue(Get(data, "state_avg_prev", IntV(0)))} :
            \E state_avg_curr \in {RoundValue(Get(data, "state_avg_curr", IntV(0)))} :
            \E ranked \in {Sorted(results, "work_management_total", 0, TRUE)} :
            \E sorted_blocks \in {Listed(ranked, results)} :
            \E highest_block \in {SelectBlock("work", sorted_blocks, TRUE)} :
            \E lowest_block \in {SelectBlock("work", sorted_blocks, FALSE)} :
                /\ data' = [data EXCEPT !.results = results]
                /\ primary' = ranked
                /\ order' = ranked
                /\ ret' = IF MeanRaises(results)
                          THEN Raise("StatisticsError")
                          ELSE IF highest_block.kind = "raise"
                          THEN highest_block
                          ELSE Return(
                            [blocks |-> sorted_blocks,
                             district_summary |->
                               [total_blocks |-> Len(results),
                                average_prev_completion |-> Average(results, "prev_completion"),
                                average_curr_completion |-> Average(results, "curr_completion"),
                                average_marks_prev |-> Average(results, "marks_prev"),
                                average_marks_curr |-> Average(results, "marks_curr"),
                                average_total_marks |-> Average(results, "work_management_total"),
                                state_avg_prev |-> state_avg_prev,
                                state_avg_curr |-> state_avg_curr,
                                highest_performing_block |-> BlockName(highest_block),
                                highest_total_marks |-> BlockMetric(highest_block, "work_management_total"),
                                lowest_performing_block |-> BlockName(lowest_block),
                                lowest_total_marks |-> BlockMetric(lowest_block, "work_management_total")]])
    /\ trace' = Append(trace, [op |-> pc', result |-> ret'.kind, ranked |-> order'])
    /\ UNCHANGED <<module, source, mainvars>>

\* ----------------------------------------------------------- zero muster
process_state_zero_muster_data ==
    /\ pc = "ready" /\ module = "zero"
    /\ stage \in {"direct", "aggregate-state"}
    /\ pc' = "process_state_zero_muster_data"
    /\ IF Invalid(data)
       THEN /\ ret' = ReturnNone
            /\ UNCHANGED <<data, primary, order>>
       ELSE \E results \in {Normalize(data.results)} :
            \E ranked \in {Sorted(results, "zero_attendance_percentage", 100, FALSE)} :
            \E sorted_districts \in {Listed(ranked, results)} :
                /\ data' = [data EXCEPT !.results = results]
                /\ primary' = ranked
                /\ order' = ranked
                /\ ret' = IF Len(sorted_districts) = 0
                          THEN Raise("IndexError")
                          ELSE Return(
                            [top_district |-> sorted_districts[1],
                             bottom_district |-> sorted_districts[Len(sorted_districts)],
                             state_averages |->
                               [total_muster_issued |-> Average(results, "total_muster_issued"),
                                total_zero_attendance |-> Average(results, "total_zero_attendance"),
                                zero_attendance_percentage |-> Average(results, "zero_attendance_percentage"),
                                zero_muster_marks |-> Average(results, "zero_muster_marks")],
                             district_ranks |-> DistrictRanks(sorted_districts),
                             total_districts |-> Len(sorted_districts)])
    /\ trace' = Append(trace, [op |-> pc', result |-> ret'.kind, ranked |-> order'])
    /\ UNCHANGED <<module, source, mainvars>>

process_district_zero_muster_data ==
    /\ pc = "ready" /\ module = "zero"
    /\ stage \in {"direct", "aggregate-entity"}
    /\ pc' = "process_district_zero_muster_data"
    /\ IF Invalid(data)
       THEN /\ ret' = ReturnNone
            /\ UNCHANGED <<data, primary, order>>
       ELSE \E results \in {Normalize(data.results)} :
            \E ranked \in {Sorted(results, "zero_attendance_percentage", 100, FALSE)} :
            \E sorted_blocks \in {Listed(ranked, results)} :
            \E best_block \in {SelectBlock("zero", sorted_blocks, TRUE)} :
            \E worst_block \in {SelectBlock("zero", sorted_blocks, FALSE)} :
                /\ data' = [data EXCEPT !.results = results]
                /\ primary' = ranked
                /\ order' = ranked
                /\ ret' = IF MeanRaises(results)
                          THEN Raise("StatisticsError")
                          ELSE Return(
                            [blocks |-> sorted_blocks,
                             district_summary |->
                               [total_blocks |-> Len(results),
                                average_total_muster_issued |-> Average(results, "total_muster_issued"),
                                average_total_zero_attendance |-> Average(results, "total_zero_attendance"),
                                average_zero_attendance_percentage |-> Average(results, "zero_attendance_percentage"),
                                average_zero_muster_marks |-> Average(results, "zero_muster_marks"),
                                best_performing_block |-> BlockName(best_block),
                                best_zero_attendance_percentage |-> BlockMetric(best_block, "zero_attendance_percentage"),
                                worst_performing_block |-> BlockName(worst_block),
                                worst_zero_attendance_percentage |-> BlockMetric(worst_block, "zero_attendance_percentage")]])
    /\ trace' = Append(trace, [op |-> pc', result |-> ret'.kind, ranked |-> order'])
    /\ UNCHANGED <<module, source, mainvars>>

\* ------------------------------------------------------- specification
Next ==
    \/ process_state_inspection_data
    \/ process_district_inspection_data
    \/ process_state_work_data
    \/ process_district_work_data
    \/ process_state_zero_muster_data
    \/ process_district_zero_muster_data

Spec == Init /\ [][Next]_vars

\* ================================================================ main()
\* The orchestrator of each script: fetch, aggregate, fetch, aggregate,
\* locate the target district, ask for the narrative, write the report.

\* ------------------------------------------------------------------ bounds
MaxDistricts == 2
MaxBlocks == 1

\* ------------------------------------------------------ inputs of a run
MainNames == {"A", "B"}

\* main's district argument: absent, empty, a district of the state data,
\* a district the state data does not list
Districts == {None, StrV(""), StrV("A"), StrV("Z")}
OutputFormats == {"text", "json"}
RunDate == StrV("2025-04-15")

DistrictRecords(m) ==
    CASE m = "inspection" ->
           {r \in InspectionRecords :
               r.group_name.v \in MainNames /\ r.total_visit_marks.v = 6000}
      [] m = "work" ->
           {r \in WorkRecords :
               r.group_name.v \in MainNames /\ r.work_management_total.v # 6000}
      [] m = "zero" ->
           {r \in ZeroRecords :
               r.group_name.v \in MainNames /\ r.zero_attendance_percentage.v # 6000}

BlockRecords(m) == {r \in DistrictRecords(m) : r.group_name.v = "A"}

\* A JSON body with a results collection and the script's passthrough fields
Body(m, c) ==
    CASE m = "inspection" ->
           [t |-> "dict", results |-> c,
            range_start |-> StrV("2025-04-01"), range_end |-> StrV("2025-04-30")]
      [] m = "work" ->
           [t |-> "dict", results |-> c,
            state_avg_prev |-> FloatV(5004), state_avg_curr |-> FloatV(4250)]
      [] m = "zero" -> [t |-> "dict", results |-> c]

Bodies(m, R, n) ==
    {[t |-> "dict"], [t |-> "dict", error |-> StrV("no data")]} \cup
    {Body(m, c) : c \in UNION {[1..k -> R] : k \in 0..n}}

\* What one requests.get(url) can meet: the request itself failing, a
\* status other than 200, status 200 with a JSON body.
HttpResponses(bodies) ==
    {[net |-> "error"], [net |-> "ok", status_code |-> 404]} \cup
    {[net |-> "ok", status_code |-> 200, json |-> b] : b \in bodies}

\* ------------------------------------------------------------ fetchers
\* A fetcher that takes every answered request for a success
get_data_any_status(response) ==
    IF response.net = "error" THEN Raise("ConnectionError")
    ELSE IF "json" \in DOMAIN response THEN Return(response.json)
    ELSE Return([t |-> "dict", error |-> StrV("not found")])

\* get_inspection_data, get_work_management_data, get_zero_muster_data:
\* requests.get(url) stands outside any try, so its exception leaves the
\* fetcher; status 200 gives response.json(), any other status None.
get_data(response) ==
    IF response.net = "error" THEN Raise("ConnectionError")
    ELSE IF response.status_code = 200 THEN Return(response.json)
    ELSE ReturnNone

\* How a fetch ended, as main sees it: "raise", "None", "falsy" for an
\* empty JSON object (not data), "return" for usable data.
FetchResult(fetched) ==
    IF fetched.kind = "return" /\ ~Truthy(fetched.value)
    THEN "falsy"
    ELSE fetched.kind

\* A check for None alone: an empty JSON object counts as data
NoDataNoneOnly(fetched) == fetched.kind = "None"

\* `if not state_data`, `if not district_data`: None and the empty object
NoData(fetched) == FetchResult(fetched) # "return"

\* A fetch as the trace keeps it: the stage, how the fetcher's answer looked
\* to main, and what the data source did (without the body)
Fetched(op, response, fetched) ==
    [op |-> op, result |-> FetchResult(fetched), net |-> response.net,
     status_code |-> IF response.net = "ok" THEN response.status_code ELSE 0]

\* A dict that keeps nothing but the new key
WithOnly(d, key, value) == [k \in {key} |-> value]

\* dict with one more key
With(d, key, value) ==
    [k \in DOMAIN d \cup {key} |-> IF k = key THEN value ELSE d[k]]

\* A check for None alone: the empty string counts as a district
NoDistrictNoneOnly(d) == d.t # "str"

\* `if not district`: None and the empty string
NoDistrict(d) == d.t # "str" \/ d.v = ""

\* ----------------------------------------------------- stages of main
MainInit ==
    /\ module \in Modules
    /\ district \in Districts
    /\ output_format \in OutputFormats
    /\ stage = "fetch-state"
    /\ data = None
    /\ source = None
    /\ primary = <<>>
    /\ order = <<>>
    /\ ret = Pending
    /\ pc = "main"
    /\ state_data = None
    /\ processed_state_data = None
    /\ result = None
    /\ analysis = None
    /\ trace = <<>>
    /\ requests = 0
    /\ files = <<>>
    /\ outcome = Pending

\* main leaves with `outcome`: a return or an exception nobody in main catches
Leave(how) ==
    /\ outcome' = how
    /\ stage' = "done"

\* state_data = get_*_data(date); if not state_data: return None
\* On usable data the next step is the state aggregator, called on it.
main_fetch_state ==
    /\ stage = "fetch-state"
    /\ \E response \in HttpResponses(Bodies(module, DistrictRecords(module), MaxDistricts)) :
       \E fetched \in {get_data(response)} :
          /\ trace' = Append(trace, Fetched("fetch-state", response, fetched))
          /\ IF fetched.kind = "raise"
             THEN Leave(fetched) /\ UNCHANGED <<data, source, pc>>
             ELSE IF NoData(fetched)
             THEN Leave(ReturnNone) /\ UNCHANGED <<data, source, pc>>
             ELSE /\ data' = fetched.value
                  /\ source' = fetched.value
                  /\ pc' = "ready"
                  /\ stage' = "aggregate-state"
                  /\ UNCHANGED outcome
    /\ UNCHANGED <<module, primary, order, ret, district, output_format,
                   state_data, processed_state_data, result, analysis,
                   requests, files>>

\* result["state_data"]: the inspection script adds the date range
StateSummary(m, processed) ==
    IF m = "inspection"
    THEN [top_district |-> processed.top_district,
          bottom_district |-> processed.bottom_district,
          state_averages |-> processed.state_averages,
          date_range |-> processed.date_range]
    ELSE [top_district |-> processed.top_district,
          bottom_district |-> processed.bottom_district,
          state_averages |-> processed.state_averages]

\* The state aggregator has come back: if not processed_state_data: return
\* None; result = {...}; if not district: return error_msg. An exception of
\* the aggregator passes through main.
main_state_summary ==
    /\ stage = "aggregate-state" /\ ret # Pending
    /\ IF ret.kind = "raise"
       THEN Leave(ret) /\ UNCHANGED <<state_data, processed_state_data, result>>
       ELSE IF ret.kind = "None"
       THEN Leave(ReturnNone) /\ UNCHANGED <<state_data, processed_state_data, result>>
       ELSE /\ state_data' = data
            /\ processed_state_data' = ret.value
            /\ result' = [date |-> RunDate,
                          state_data |-> StateSummary(module, ret.value)]
            /\ IF NoDistrict(district)
               THEN Leave(Return(StrV("District name is required for analysis")))
               ELSE stage' = "fetch-entity" /\ UNCHANGED outcome
    /\ UNCHANGED <<aggvars, district, output_format, analysis, requests,
                   files, trace>>

\* district_data = get_*_data(date, district); if not district_data: return
\* None. On usable data the next step is the district aggregator.
main_fetch_district ==
    /\ stage = "fetch-entity"
    /\ \E response \in HttpResponses(Bodies(module, BlockRecords(module), MaxBlocks)) :
       \E fetched \in {get_data(response)} :
          /\ trace' = Append(trace, Fetched("fetch-entity", response, fetched))
          /\ IF fetched.kind = "raise"
             THEN Leave(fetched) /\ UNCHANGED <<data, source, primary, order, ret, pc>>
             ELSE IF NoData(fetched)
             THEN Leave(ReturnNone) /\ UNCHANGED <<data, source, primary, order, ret, pc>>
             ELSE /\ data' = fetched.value
                  /\ source' = fetched.value
                  /\ primary' = <<>>
                  /\ order' = <<>>
                  /\ ret' = Pending
                  /\ pc' = "ready"
                  /\ stage' = "aggregate-entity"
                  /\ UNCHANGED outcome
    /\ UNCHANGED <<module, district, output_format, state_data,
                   processed_state_data, result, analysis, requests, files>>

\* district_ranks.get(district, 0)
DistrictRankOrZero(ranks, d) == IF d.v \in DOMAIN ranks THEN IntV(ranks[d.v]) ELSE IntV(0)

\* district_ranks.get(district, None)
DistrictRank(ranks, d) == IF d.v \in DOMAIN ranks THEN IntV(ranks[d.v]) ELSE None

\* The last record of the list that carries the name
LastNamed(results, d) ==
    LET at == {i \in 1..Len(results) : results[i].group_name = d}
    IN  IF at = {} THEN None
        ELSE results[CHOOSE i \in at : \A j \in at : j <= i]

\* for d in state_data['results']: if d['group_name'] == district: ... break
FirstNamed(results, d) ==
    LET at == {i \in 1..Len(results) : results[i].group_name = d}
    IN  IF at = {} THEN None
        ELSE results[CHOOSE i \in at : \A j \in at : i <= j]

\* The district aggregator has come back: if not processed_district_data:
\* return None; then the rank and the state-level record of the target
\* district are looked up and result["district_data"] is filled in.
main_locate_target ==
    /\ stage = "aggregate-entity" /\ ret # Pending
    /\ IF ret.kind = "raise"
       THEN Leave(ret) /\ UNCHANGED <<result, trace>>
       ELSE IF ret.kind = "None"
       THEN Leave(ReturnNone) /\ UNCHANGED <<result, trace>>
       ELSE /\ result' = With(result, "district_data",
                  [district_name |-> district,
                   state_rank |-> DistrictRank(processed_state_data.district_ranks, district),
                   total_districts |-> processed_state_data.total_districts,
                   district_info |-> FirstNamed(state_data.results, district),
                   details |-> ret.value])
            /\ trace' = Append(trace, [op |-> "locate-target", result |-> "return"])
            /\ stage' = "generate-report"
            /\ UNCHANGED outcome
    /\ UNCHANGED <<aggvars, district, output_format, state_data,
                   processed_state_data, analysis, requests, files>>

\* --------------------------------------------------- narrative service
\* os.getenv("ANTHROPIC_API_KEY")
ApiKeys == {None, StrV("key")}

\* What client.messages.create can do: raise, or answer with content
\* blocks, with or without a thinking attribute.
ServiceResponses ==
    {[ok |-> FALSE],
     [ok |-> TRUE, content |-> <<[type |-> "text", text |-> "Report"]>>],
     [ok |-> TRUE, thinking |-> [thinking_text |-> "Because"],
      content |-> <<[type |-> "thinking"], [type |-> "text", text |-> "Rep"],
                    [type |-> "text", text |-> "ort."]>>]}

\* response_text = ""; for content_block in response.content:
\*     if hasattr(content_block, 'text'): response_text += content_block.text
RECURSIVE ResponseText(_, _)
ResponseText(content, i) ==
    IF i > Len(content) THEN ""
    ELSE (IF "text" \in DOMAIN content[i] THEN content[i].text ELSE "")
         \o ResponseText(content, i + 1)

\* hasattr(response, 'thinking') and response.thinking
HasThinking(response) == "thinking" \in DOMAIN response

\* A requester that answers a failed request with a stock narrative
call_claude_api_fallback(api_key, response) ==
    IF api_key = None
    THEN [ret |-> Raise("ValueError"), requests |-> 0, files |-> <<>>]
    ELSE IF ~response.ok
    THEN [ret |-> Return(StrV("Analysis unavailable")), requests |-> 1, files |-> <<>>]
    ELSE [ret |-> Return(StrV(ResponseText(response.content, 1))),
          requests |-> 1,
          files |-> (IF HasThinking(response) THEN <<"thinking">> ELSE <<>>)
                    \o <<"response">>]

\* A requester that asks the service before it looks for the key
call_claude_api_late_key(api_key, response) ==
    IF ~response.ok
    THEN [ret |-> Raise("APIError"), requests |-> 1, files |-> <<>>]
    ELSE IF api_key = None
    THEN [ret |-> Raise("ValueError"), requests |-> 1, files |-> <<"response">>]
    ELSE [ret |-> Return(StrV(ResponseText(response.content, 1))),
          requests |-> 1,
          files |-> (IF HasThinking(response) THEN <<"thinking">> ELSE <<>>)
                    \o <<"response">>]

\* A requester that writes a thinking file for every answer
call_claude_api_always_thinking(api_key, response) ==
    IF api_key = None
    THEN [ret |-> Raise("ValueError"), requests |-> 0, files |-> <<>>]
    ELSE IF ~response.ok
    THEN [ret |-> Raise("APIError"), requests |-> 1, files |-> <<>>]
    ELSE [ret |-> Return(StrV(ResponseText(response.content, 1))),
          requests |-> 1,
          files |-> <<"thinking", "response">>]

\* call_claude_api(prompt): without the key a ValueError before anything
\* else; then one request, whose exception is logged and raised again; on an
\* answer the thinking file (if any) and the response file are written and
\* the text of the content blocks is returned.
call_claude_api(api_key, response) ==
    IF api_key = None
    THEN [ret |-> Raise("ValueError"), requests |-> 0, files |-> <<>>]
    ELSE IF ~response.ok
    THEN [ret |-> Raise("APIError"), requests |-> 1, files |-> <<>>]
    ELSE [ret |-> Return(StrV(ResponseText(response.content, 1))),
          requests |-> 1,
          files |-> (IF HasThinking(response) THEN <<"thinking">> ELSE <<>>)
                    \o <<"response">>]

\* analysis = generate_*_analysis(result["state_data"],
\*                                result["district_data"], district)
main_generate_report ==
    /\ stage = "generate-report"
    /\ \E api_key \in ApiKeys, response \in ServiceResponses :
       \E called \in {call_claude_api(api_key, response)} :
          /\ requests' = requests + called.requests
          /\ files' = files \o called.files
          /\ trace' = Append(trace,
                 [op |-> "generate-report", result |-> called.ret.kind,
                  returned |-> called.ret,
                  has_key |-> api_key # None,
                  answered |-> api_key # None /\ response.ok,
                  with_thinking |-> /\ api_key # None
                                    /\ "thinking" \in DOMAIN response])
          /\ IF called.ret.kind = "raise"
             THEN Leave(called.ret) /\ UNCHANGED analysis
             ELSE /\ analysis' = called.ret.value
                  /\ stage' = "persist-output"
                  /\ UNCHANGED outcome
    /\ UNCHANGED <<aggvars, district, output_format, state_data,
                   processed_state_data, result>>

\* The report file is written and main returns: the result dict with the
\* analysis added for "json", the analysis alone for any other format.
main_persist_output ==
    /\ stage = "persist-output"
    /\ IF output_format = "json"
       THEN /\ result' = With(result, "analysis", analysis)
            /\ files' = Append(files, "report.json")
            /\ Leave(Return(result'))
       ELSE /\ files' = Append(files, "report.txt")
            /\ Leave(Return(analysis))
            /\ UNCHANGED result
    /\ trace' = Append(trace, [op |-> "persist-output", result |-> "return"])
    /\ UNCHANGED <<aggvars, district, output_format, state_data,
                   processed_state_data, analysis, requests>>

MainNext ==
    \/ main_fetch_state
    \/ process_state_inspection_data
    \/ process_state_work_data
    \/ process_state_zero_muster_data
    \/ main_state_summary
    \/ main_fetch_district
    \/ process_district_inspection_data
    \/ process_district_work_data
    \/ process_district_zero_muster_data
    \/ main_locate_target
    \/ main_generate_report
    \/ main_persist_output

\* Runs of main()
MainSpec == MainInit /\ [][MainNext]_vars

\* Runs of main() together with the aggregators called on their own
CallInit == Init \/ MainInit
CallSpec == CallInit /\ [][MainNext]_vars


\* ================================================================ claims
StateAggregators ==
    {"process_state_inspection_data", "process_state_work_data",
     "process_state_zero_muster_data"}

DistrictAggregators ==
    {"process_district_inspection_data", "process_district_work_data",
     "process_district_zero_muster_data"}

Returned == ret.kind = "return"
StateReturned == pc \in StateAggregators /\ Returned
DistrictReturned == pc \in DistrictAggregators /\ Returned
InspectionRan == pc \in {"process_state_inspection_data", "process_district_inspection_data"}

\* The response carried a results collection (the aggregator went past its
\* format check), and that collection was empty
Accepted == pc # "ready" /\ source.t = "dict" /\ "results" \in DOMAIN source
EmptyInput == Accepted /\ Len(source.results) = 0

PrimaryMetric ==
    CASE module = "inspection" -> "total_visit_marks"
      [] module = "work" -> "work_management_total"
      [] module = "zero" -> "zero_attendance_percentage"

MaxOf(S) == CHOOSE x \in S : \A y \in S : y <= x
MinOf(S) == CHOOSE x \in S : \A y \in S : x <= y
Position(s, x) == CHOOSE i \in 1..Len(s) : s[i] = x
NamesDistinct(results) ==
    \A i, j \in 1..Len(results) :
        results[i].group_name = results[j].group_name => i = j

\* The final ranked list of records of the call that ran
Ranked == Listed(order, data.results)

\* ---- C1 (as claimed): for every non-empty state collection, whatever the
\* group_names, the ranks held in district_ranks are exactly 1..N, each once,
\* N being total_districts.
C1_RanksArePermutation ==
    StateReturned =>
        LET r == ret.value.district_ranks
        IN  /\ {r[n] : n \in DOMAIN r} = 1..ret.value.total_districts
            /\ Cardinality(DOMAIN r) = ret.value.total_districts

\* ---- C1 (amended): district_ranks holds one rank per distinct group_name,
\* the final position of the last record carrying that name, so the ranks are
\* distinct values in 1..N; they are a permutation of 1..N when the
\* group_names of the collection are pairwise distinct.
C1_RanksPermutationWhenNamesDistinct ==
    StateReturned =>
        LET r == ret.value.district_ranks
            n == ret.value.total_districts
        IN  /\ n = Len(source.results)
            /\ DOMAIN r = {Ranked[i].group_name.v : i \in 1..n}
            /\ \A a \in DOMAIN r :
                 /\ r[a] \in 1..n
                 /\ Ranked[r[a]].group_name.v = a
                 /\ \A j \in (r[a] + 1)..n : Ranked[j].group_name.v # a
            /\ \A a, b \in DOMAIN r : r[a] = r[b] => a = b
            /\ NamesDistinct(source.results) =>
                 /\ {r[a] : a \in DOMAIN r} = 1..n
                 /\ Cardinality(DOMAIN r) = n

C1_Witness ==
    /\ StateReturned
    /\ Len(source.results) = 3
    /\ NamesDistinct(source.results)
    /\ order # <<1, 2, 3>>

\* ---- C2: in the inspection and work-management state aggregators the
\* record at rank 1 holds the maximum primary metric of the collection and
\* bottom_district the minimum; in the zero-muster state aggregator rank 1
\* holds the minimum and bottom_district the maximum; in the inspection
\* pipeline this is so after the tie-break pass.
C2_TopBottomAreExtremes ==
    StateReturned =>
        LET held == {data.results[i][PrimaryMetric].v : i \in 1..Len(data.results)}
            given == {source.results[i][PrimaryMetric].v : i \in 1..Len(source.results)}
            top == ret.value.top_district[PrimaryMetric].v
            bottom == ret.value.bottom_district[PrimaryMetric].v
        IN  /\ ret.value.top_district = Ranked[1]
            /\ ret.value.bottom_district = Ranked[Len(Ranked)]
            /\ IF module = "zero"
               THEN /\ top = MinOf(held) /\ bottom = MaxOf(held)
                    /\ top = Round2(MinOf(given)) /\ bottom = Round2(MaxOf(given))
               ELSE /\ top = MaxOf(held) /\ bottom = MinOf(held)
                    /\ top = Round2(MaxOf(given)) /\ bottom = Round2(MinOf(given))

C2_Witness ==
    /\ pc = "process_state_inspection_data" /\ Returned
    /\ Len(source.results) = 3
    /\ order # primary
    /\ ret.value.top_district.total_visit_marks # ret.value.bottom_district.total_visit_marks

Averages ==
    IF pc \in StateAggregators THEN ret.value.state_averages
    ELSE ret.value.district_summary

AverageFields ==
    CASE pc = "process_state_inspection_data" ->
           {<<"dpc_ws_visited", "dpc_ws_visited">>, <<"adpc_ws_visited", "adpc_ws_visited">>,
            <<"dpc_marks", "dpc_marks">>, <<"adpc_marks", "adpc_marks">>,
            <<"total_marks", "total_visit_marks">>}
      [] pc = "process_district_inspection_data" ->
           {<<"average_dpc_ws_visited", "dpc_ws_visited">>,
            <<"average_adpc_ws_visited", "adpc_ws_visited">>,
            <<"average_dpc_marks", "dpc_marks">>, <<"average_adpc_marks", "adpc_marks">>,
            <<"average_total_marks", "total_visit_marks">>}
      [] pc = "process_state_work_data" ->
           {<<"prev_completion", "prev_completion">>, <<"curr_completion", "curr_completion">>,
            <<"marks_prev", "marks_prev">>, <<"marks_curr", "marks_curr">>,
            <<"total_marks", "work_management_total">>}
      [] pc = "process_district_work_data" ->
           {<<"average_prev_completion", "prev_completion">>,
            <<"average_curr_completion", "curr_completion">>,
            <<"average_marks_prev", "marks_prev">>, <<"average_marks_curr", "marks_curr">>,
            <<"average_total_marks", "work_management_total">>}
      [] pc = "process_state_zero_muster_data" ->
           {<<"total_muster_issued", "total_muster_issued">>,
            <<"total_zero_attendance", "total_zero_attendance">>,
            <<"zero_attendance_percentage", "zero_attendance_percentage">>,
            <<"zero_muster_marks", "zero_muster_marks">>}
      [] pc = "process_district_zero_muster_data" ->
           {<<"average_total_muster_issued", "total_muster_issued">>,
            <<"average_total_zero_attendance", "total_zero_attendance">>,
            <<"average_zero_attendance_percentage", "zero_attendance_percentage">>,
            <<"average_zero_muster_marks", "zero_muster_marks">>}

RECURSIVE FieldTotal(_, _, _)
FieldTotal(results, key, n) ==
    IF n = 0 THEN 0
    ELSE FieldTotal(results, key, n - 1) +
         (IF key \in DOMAIN results[n] THEN results[n][key].v ELSE 0)

\* a (thousandths) is total / n rounded to 2 decimals: a whole number of
\* hundredths no further than half a hundredth from the mean
IsMeanTo2Decimals(a, total, n) ==
    /\ a % 10 = 0
    /\ 2 * (n * a - total) <= 10 * n
    /\ 2 * (total - n * a) <= 10 * n

\* ---- C3 (as claimed): every average in the returned summary is the mean
\* of the field over the records as the source supplied them, rounded to 2
\* decimals.
C3_AveragesOfSuppliedValues ==
    (pc # "ready" /\ Returned) =>
        \A f \in AverageFields :
            IsMeanTo2Decimals(Averages[f[1]].v,
                              FieldTotal(source.results, f[2], Len(source.results)),
                              Len(source.results))

\* ---- C3 (amended): every average in the returned summary is the mean of
\* the field over the records after normalization (every fractional value
\* already rounded to 2 decimals), rounded to 2 decimals.
C3_AveragesOfNormalizedValues ==
    (pc # "ready" /\ Returned) =>
        \A f \in AverageFields :
            IsMeanTo2Decimals(Averages[f[1]].v,
                              FieldTotal(data.results, f[2], Len(data.results)),
                              Len(data.results))

C3_Witness ==
    /\ pc = "process_district_work_data" /\ Returned
    /\ Len(source.results) = 3
    /\ ~IsMeanTo2Decimals(ret.value.district_summary.average_total_marks.v,
                          FieldTotal(source.results, "work_management_total", 3), 3)

\* ---- C6: numeric normalization is idempotent: the records an aggregator
\* leaves behind are the supplied records normalized once, and normalizing
\* them again changes nothing.
C6_NormalizeIdempotent ==
    Accepted =>
        /\ data.results = Normalize(source.results)
        /\ Normalize(data.results) = data.results

C6_Witness ==
    /\ Accepted
    /\ Len(source.results) = 3
    /\ data.results # source.results

\* ---- C7: the inspection state aggregator on [A(6.0, visits 3 and 2),
\* B(6.0, visits 1 and 1), C(4.0, visits 0 and 0)] ranks A=1, B=2, C=3,
\* with top_district A, bottom_district C, total_districts 3 and average
\* total marks 5.33.
ScenarioRecord(name, marks, dpc, adpc) ==
    [group_name |-> StrV(name), total_visit_marks |-> FloatV(marks),
     dpc_ws_visited |-> IntV(dpc), adpc_ws_visited |-> IntV(adpc)]

Scenario ==
    <<ScenarioRecord("A", 6000, 3, 2), ScenarioRecord("B", 6000, 1, 1),
      ScenarioRecord("C", 4000, 0, 0)>>

C7_ScenarioResult ==
    (pc = "process_state_inspection_data" /\ Accepted /\ source.results = Scenario) =>
        /\ Returned
        /\ DOMAIN ret.value.district_ranks = {"A", "B", "C"}
        /\ ret.value.district_ranks["A"] = 1
        /\ ret.value.district_ranks["B"] = 2
        /\ ret.value.district_ranks["C"] = 3
        /\ ret.value.top_district = Scenario[1]
        /\ ret.value.bottom_district = Scenario[3]
        /\ ret.value.total_districts = 3
        /\ ret.value.state_averages.total_marks = FloatV(5330)

C7_Witness ==
    /\ pc = "process_state_inspection_data" /\ Accepted
    /\ source.results = Scenario
    /\ Returned

\* ---- C8 (as claimed): process_district_work_data, given a results
\* collection that is present but empty, raises nothing and returns a summary
\* with highest_performing_block and lowest_performing_block null and
\* total_blocks 0.
C8_WorkEmptyReturnsNulls ==
    (pc = "process_district_work_data" /\ EmptyInput) =>
        /\ Returned
        /\ ret.value.district_summary.highest_performing_block = None
        /\ ret.value.district_summary.lowest_performing_block = None
        /\ ret.value.district_summary.total_blocks = 0

\* ---- C8 (what the code does instead): process_district_work_data, given a
\* results collection that is present but empty, raises the fault of averaging
\* no data (StatisticsError) and returns no summary.
C8_WorkEmptyRaises ==
    (pc = "process_district_work_data" /\ EmptyInput) =>
        ret = Raise("StatisticsError")

C8_Witness ==
    /\ pc = "process_district_work_data" /\ EmptyInput
    /\ ret.kind = "raise"

\* ---- C9 (as claimed): process_district_zero_muster_data, given a results
\* collection that is present but empty, does not raise and returns a summary
\* with best_performing_block and worst_performing_block null.
C9_ZeroEmptyReturnsNulls ==
    (pc = "process_district_zero_muster_data" /\ EmptyInput) =>
        /\ Returned
        /\ ret.value.district_summary.best_performing_block = None
        /\ ret.value.district_summary.worst_performing_block = None

\* ---- C10 (as claimed): process_district_inspection_data, given a results
\* collection that is present but empty, ends in an uncaught fault (no
\* summary, no null signal), and its best/worst selection has no emptiness
\* guard (selecting from the empty list faults).
C10_InspectionEmptyUnguarded ==
    (pc = "process_district_inspection_data" /\ EmptyInput) =>
        /\ ret.kind = "raise"
        /\ SelectBlock("inspection", Ranked, TRUE).kind = "raise"
        /\ SelectBlock("inspection", Ranked, FALSE).kind = "raise"

\* ---- C10 (amended): process_district_inspection_data, given a results
\* collection that is present but empty, ends in an uncaught fault (no
\* summary, no null signal), raised by the averaging; its best/worst
\* selection does carry an emptiness guard (it yields null on the empty
\* list), which the fault keeps from being reached.
C10_InspectionEmptyRaisesBeforeGuard ==
    (pc = "process_district_inspection_data" /\ EmptyInput) =>
        /\ ret = Raise("StatisticsError")
        /\ SelectBlock("inspection", Ranked, TRUE) = [kind |-> "None"]
        /\ SelectBlock("inspection", Ranked, FALSE) = [kind |-> "None"]

C10_Witness ==
    /\ pc = "process_district_inspection_data" /\ EmptyInput
    /\ ret.kind = "raise"
    /\ Len(Ranked) = 0

\* C11: in each of the three state aggregators an input whose results
\* collection is present but empty makes the call fail with a raised fault
\* (IndexError from sorted_districts[0]): no result record with top/bottom
\* entries and no silent None comes back for that input.
C11_StateEmptyRaises ==
    (pc \in StateAggregators /\ EmptyInput) =>
        /\ ret.kind = "raise"
        /\ ret # ReturnNone
        /\ ~Returned

C11_Witness ==
    /\ pc = "process_state_work_data" /\ EmptyInput
    /\ ret = Raise("IndexError")

\* ------------------------------------------------ passthrough context
WorkAggregators == {"process_state_work_data", "process_district_work_data"}
InspectionAggregators ==
    {"process_state_inspection_data", "process_district_inspection_data"}

\* The date range and the state averages as the returned record reports them.
ReportedDateRange ==
    IF pc = "process_state_inspection_data"
    THEN ret.value.date_range
    ELSE ret.value.district_summary.date_range

ReportedStateAvgs ==
    IF pc = "process_state_work_data"
    THEN <<ret.value.state_averages.state_avg_prev,
           ret.value.state_averages.state_avg_curr>>
    ELSE <<ret.value.district_summary.state_avg_prev,
           ret.value.district_summary.state_avg_curr>>

SuppliedStateAvgs == <<source.state_avg_prev, source.state_avg_curr>>

DateRangeForwarded ==
    (pc \in InspectionAggregators /\ Returned) =>
        /\ ReportedDateRange.start = source.range_start
        /\ ReportedDateRange.end = source.range_end

\* C19 as stated: range_start/range_end of the inspection aggregators and
\* state_avg_prev/state_avg_curr of the work-management aggregators are equal
\* to the values the data source supplied.
C19_PassthroughUnchanged ==
    /\ DateRangeForwarded
    /\ (pc \in WorkAggregators /\ Returned) =>
           ReportedStateAvgs = SuppliedStateAvgs

\* C19 amended: the date range is forwarded unchanged; the two state averages
\* are forwarded rounded to 2 decimals, so each is a whole number of
\* hundredths within half a hundredth of the supplied value, and equals it
\* exactly when the supplied value has at most 2 decimals.
C19_DatesForwardedAveragesRounded ==
    /\ DateRangeForwarded
    /\ (pc \in WorkAggregators /\ Returned) =>
           \A i \in 1..2 :
               /\ ReportedStateAvgs[i].t = "float"
               /\ ReportedStateAvgs[i].v % 10 = 0
               /\ ReportedStateAvgs[i].v - SuppliedStateAvgs[i].v \in -5..5
               /\ (SuppliedStateAvgs[i].v % 10 = 0 =>
                      ReportedStateAvgs[i] = SuppliedStateAvgs[i])

C19_Witness ==
    /\ pc = "process_district_work_data" /\ Returned
    /\ SuppliedStateAvgs = <<FloatV(5004), FloatV(4250)>>
    /\ ReportedStateAvgs = <<FloatV(5000), FloatV(4250)>>

\* ====================================================== runs of main()
Aggregators == StateAggregators \cup DistrictAggregators
Finished == stage = "done"
Last == trace[Len(trace)]

\* The ops of the stages executed so far, in order
Ops == [i \in DOMAIN trace |-> trace[i].op]

\* An aggregator was called on None or on a response without results
NullOrNoResults ==
    /\ pc \in Aggregators
    /\ source.t = "None" \/ "results" \notin DOMAIN source

\* C12: each of the six aggregators, given None or a response without a
\* results field, returns None without raising and without touching a
\* record (the response is left as supplied, nothing is sorted); when main
\* made the call, that is the last stage of the run: main returns None, no
\* narrative request is made and no file is written.
C12_NullSignalHalts ==
    /\ NullOrNoResults =>
           /\ ret.kind = "None"
           /\ data = source
           /\ primary = <<>> /\ order = <<>>
    /\ \A i \in DOMAIN trace :
           (trace[i].op \in Aggregators /\ trace[i].result = "None") =>
               /\ i = Len(trace)
               /\ requests = 0 /\ files = <<>>
               /\ stage \in {"direct", "aggregate-state", "aggregate-entity", "done"}
               /\ Finished => outcome.kind = "None"

C12_Witness ==
    /\ Finished
    /\ NullOrNoResults
    /\ Ops = <<"fetch-state", "process_state_work_data",
               "fetch-entity", "process_district_work_data">>
    /\ Last.result = "None"
    /\ outcome.kind = "None"

\* A fetch of the run that was answered with a status other than 200
Non200(e) ==
    /\ e.op \in {"fetch-state", "fetch-entity"}
    /\ e.net = "ok" /\ e.status_code # 200

\* C13: when the state fetch is answered with a status other than 200 the
\* fetcher returns None without raising, and the run ends there: no
\* aggregator is called, no narrative request is made, no file is written
\* and main returns None. When the entity fetch is answered that way, the
\* run ends the same way after the state aggregation: no entity aggregator,
\* no report generator, no file.
C13_Non200HaltsRun ==
    \A i \in DOMAIN trace :
        Non200(trace[i]) =>
            /\ trace[i].result = "None"
            /\ i = Len(trace)
            /\ i = IF trace[i].op = "fetch-state" THEN 1 ELSE 3
            /\ \A j \in 1..(i - 1) : trace[j].result = "return"
            /\ pc \notin DistrictAggregators
            /\ trace[i].op = "fetch-state" => pc \notin Aggregators
            /\ requests = 0 /\ files = <<>> /\ analysis = None
            /\ Finished /\ outcome.kind = "None"

C13_Witness ==
    /\ Finished
    /\ Ops = <<"fetch-state", "process_state_zero_muster_data", "fetch-entity">>
    /\ Non200(Last) /\ Last.status_code = 404
    /\ outcome.kind = "None"
    /\ files = <<>>

\* A fetch of the run whose HTTP request itself failed
NetworkError(e) ==
    /\ e.op \in {"fetch-state", "fetch-entity"}
    /\ e.net = "error"

\* C14: a network error during a fetch is handled like a status other than
\* 200: the fetcher returns None without raising and main halts through
\* its null check, returning None.
C14_NetworkErrorReturnsNull ==
    \A i \in DOMAIN trace :
        NetworkError(trace[i]) =>
            /\ trace[i].result = "None"
            /\ Finished /\ outcome.kind = "None"

\* C14, what the code does instead: the exception of requests.get leaves
\* the fetcher and main; the run ends there with the fault.
C14_NetworkErrorPropagates ==
    \A i \in DOMAIN trace :
        NetworkError(trace[i]) =>
            /\ trace[i].result = "raise"
            /\ i = Len(trace)
            /\ Finished /\ outcome = Raise("ConnectionError")
            /\ requests = 0 /\ files = <<>>

DistrictRequired == StrV("District name is required for analysis")

\* The state fetch and the state aggregation of the run have both succeeded
StateStagesSucceeded ==
    /\ Len(trace) >= 2
    /\ trace[1].op = "fetch-state" /\ trace[1].result = "return"
    /\ trace[2].op \in StateAggregators /\ trace[2].result = "return"

\* C15: in a run without a target district (None or the empty string),
\* once the state fetch and the state aggregation have succeeded nothing
\* else is executed: no entity fetch, no entity aggregation, no narrative
\* request, no file; main returns the message 'District name is required
\* for analysis' as a value and raises nothing.
C15_NoDistrictReturnsMessage ==
    (district \in {None, StrV("")} /\ StateStagesSucceeded) =>
        /\ Len(trace) = 2
        /\ stage \in {"aggregate-state", "done"}
        /\ requests = 0 /\ files = <<>> /\ analysis = None
        /\ Finished => outcome = Return(DistrictRequired)

C15_Witness ==
    /\ Finished
    /\ district = StrV("")
    /\ Ops = <<"fetch-state", "process_state_inspection_data">>
    /\ outcome = Return(DistrictRequired)

\* The stage an entry of the trace belongs to
StageOf(op) ==
    IF op \in StateAggregators THEN "aggregate-state"
    ELSE IF op \in DistrictAggregators THEN "aggregate-entity"
    ELSE op

StageOrder ==
    <<"fetch-state", "aggregate-state", "fetch-entity", "aggregate-entity",
      "locate-target", "generate-report", "persist-output">>

\* C16: in every run of main the stages occur in the order fetch-state,
\* aggregate-state, fetch-entity, aggregate-entity, locate-target,
\* generate-report, persist-output: the i-th stage executed is the i-th of
\* that list (so none is skipped, repeated or retried), every stage before
\* the latest one has completed successfully, and a stage that ended with
\* the failure/null signal or a fault is the last one of the run.
C16_StagesInOrder ==
    /\ Len(trace) <= Len(StageOrder)
    /\ \A i \in DOMAIN trace :
           /\ StageOf(trace[i].op) = StageOrder[i]
           /\ i < Len(trace) => trace[i].result = "return"
           /\ trace[i].result # "return" =>
                  stage \in {"aggregate-state", "aggregate-entity", "done"}
    /\ Finished => outcome # Pending

C16_Witness ==
    /\ Finished
    /\ [i \in DOMAIN trace |-> StageOf(trace[i].op)] = StageOrder
    /\ \A i \in DOMAIN trace : trace[i].result = "return"
    /\ outcome.kind = "return"

\* The run reached the report generator without the ANTHROPIC_API_KEY
KeyAbsent(e) == e.op = "generate-report" /\ ~e.has_key

\* The run had the key and its request to the narrative service failed
RequestFailed(e) == e.op = "generate-report" /\ e.has_key /\ ~e.answered

ReportFiles == {"report.txt", "report.json"}
Written == {files[i] : i \in DOMAIN files}

\* C17: without the ANTHROPIC_API_KEY call_claude_api raises a ValueError
\* before any request to the narrative service and before any thinking or
\* response file is written; the fault leaves main and no report file is
\* written.
C17_MissingKeyRaisesFirst ==
    \A i \in DOMAIN trace :
        KeyAbsent(trace[i]) =>
            /\ trace[i].result = "raise"
            /\ i = Len(trace)
            /\ requests = 0
            /\ files = <<>>
            /\ analysis = None
            /\ Finished /\ outcome = Raise("ValueError")

C17_Witness ==
    /\ Finished
    /\ Len(trace) = 6 /\ KeyAbsent(Last)
    /\ outcome = Raise("ValueError")
    /\ requests = 0 /\ files = <<>>

\* C18: a failed request to the narrative service is raised again and
\* leaves main: no narrative is returned in its place, no report file is
\* written, and no run issues more than one request.
C18_RequestFailureReraised ==
    /\ requests <= 1
    /\ \A i \in DOMAIN trace :
           RequestFailed(trace[i]) =>
               /\ trace[i].result = "raise"
               /\ i = Len(trace)
               /\ requests = 1
               /\ Written \cap ReportFiles = {}
               /\ analysis = None
               /\ Finished /\ outcome.kind = "raise"

C18_Witness ==
    /\ Finished
    /\ Len(trace) = 6 /\ RequestFailed(Last)
    /\ outcome = Raise("APIError")
    /\ requests = 1 /\ files = <<>>

\* The run went through every stage
Succeeded == Finished /\ Len(trace) = Len(StageOrder)

\* What the report requester returned in this run
Narrative == trace[6].returned.value

\* C20: a successful run returns, for output format "json", a record with
\* exactly the keys date, state_data, district_data and analysis, and for
\* "text" the narrative alone; the narrative is the text the report
\* requester returned, the state summary is the one built from the state
\* aggregation and the entity summary names the target district.
C20_SuccessfulReturn ==
    Succeeded =>
        /\ outcome.kind = "return"
        /\ IF output_format = "json"
           THEN /\ DOMAIN outcome.value =
                       {"date", "state_data", "district_data", "analysis"}
                /\ outcome.value.analysis = Narrative
                /\ outcome.value.date = RunDate
                /\ outcome.value.state_data.top_district =
                       processed_state_data.top_district
                /\ outcome.value.district_data.district_name = district
           ELSE outcome.value = Narrative

C20_Witness ==
    /\ Succeeded
    /\ output_format = "json"
    /\ outcome.kind = "return"
    /\ outcome.value.analysis = StrV("Report.")
    /\ outcome.value.district_data.state_rank = IntV(1)
    /\ "report.json" \in Written

\* ============================================ ordering and normalization
\* The aggregator that ran got a results collection and sorted it
Sortable == pc \in Aggregators /\ Accepted

\* The primary metric of the i-th record as the sort read it
Metric(i) == data.results[i][PrimaryMetric].v

\* C21: in the work-management and zero-muster aggregators (state and
\* district level) two records with equal primary metric stand in the ranked
\* output in the order they had in the input collection, for the descending
\* sort of work management as for the ascending sort of zero muster.
C21_EqualMetricKeepsInputOrder ==
    (Sortable /\ module \in {"work", "zero"}) =>
        /\ Len(order) = Len(source.results)
        /\ \A i, j \in 1..Len(source.results) :
               (i < j /\ Metric(i) = Metric(j)) =>
                   Position(order, i) < Position(order, j)

C21_Witness ==
    /\ pc = "process_state_zero_muster_data" /\ Returned
    /\ Len(source.results) = 3
    /\ Metric(1) = Metric(3) /\ Metric(2) < Metric(1)
    /\ source.results[1] # source.results[3]
    /\ order = <<2, 1, 3>>

InspectionSorted == InspectionRan /\ Accepted

\* C22 as stated: after the inspection tie-break pass every record stands at
\* most one place away from its place in the list of the primary sort.
C22_MovesAtMostOnePlace ==
    InspectionSorted =>
        \A x \in 1..Len(primary) :
            Position(order, x) - Position(primary, x) \in -1..1

\* C22 amended: the pass makes adjacent exchanges only, so a record climbs
\* at most one place; the record that is exchanged downwards is compared
\* again at its new place and can be carried down any number of places, but
\* never out of its run of equal total_visit_marks.
C22_ClimbsAtMostOnePlace ==
    InspectionSorted =>
        /\ Len(order) = Len(primary)
        /\ \A x \in 1..Len(primary) :
               /\ Position(order, x) >= Position(primary, x) - 1
               /\ \A p \in 1..Len(primary) :
                      (Position(primary, x) <= p /\ p <= Position(order, x)) =>
                          Metric(primary[p]) = Metric(x)

C22_Witness ==
    /\ pc = "process_state_inspection_data" /\ Returned
    /\ Len(primary) = 3
    /\ order = <<primary[2], primary[3], primary[1]>>

\* The primary metric of the i-th record as the data source supplied it
SourceMetric(i) == source.results[i][PrimaryMetric].v

\* Two records whose supplied metrics differ and round to one value
RoundToSame(i, j) ==
    /\ SourceMetric(i) # SourceMetric(j)
    /\ Round2(SourceMetric(i)) = Round2(SourceMetric(j))

\* The supplied primary metrics, each rounded to 2 decimals
RoundedMetrics ==
    [i \in 1..Len(source.results) |-> [metric |-> FloatV(Round2(SourceMetric(i)))]]

\* The records an aggregator hands back: the ranked blocks of a district
\* aggregator, the top and bottom record of a state aggregator
OutputRecords ==
    IF pc \in DistrictAggregators
    THEN {ret.value.blocks[i] : i \in 1..Len(ret.value.blocks)}
    ELSE {ret.value.top_district, ret.value.bottom_district}

TwoDecimals(rec) == \A k \in DOMAIN rec : rec[k].t = "float" => rec[k].v % 10 = 0

\* C23: normalization comes first in every aggregator. Ranking reads the
\* rounded values: two records whose supplied metrics differ but round to
\* the same 2-decimal value are ranked as tied (they keep their input order
\* in the primary sort and, in the inspection pipeline, the first pair of a
\* run is exchanged by the tie-break pass when the second has more visits).
\* Averaging reads the rounded values, and every fractional field of every
\* record in the output has 2 decimals.
C23_NormalizedBeforeRanking ==
    /\ Sortable =>
           /\ \A i, j \in 1..Len(source.results) :
                  (i < j /\ RoundToSame(i, j)) =>
                      Position(primary, i) < Position(primary, j)
           /\ (module = "inspection" /\ Len(primary) >= 2) =>
                  LET a == primary[1]
                      b == primary[2]
                  IN  (/\ RoundToSame(a, b)
                       /\ TotalVisits(source.results[a]) < TotalVisits(source.results[b]))
                      => order[1] = b
    /\ (pc \in Aggregators /\ Returned) =>
           /\ \A rec \in OutputRecords : TwoDecimals(rec)
           /\ \A f \in AverageFields :
                  f[2] = PrimaryMetric =>
                      IsMeanTo2Decimals(
                          Averages[f[1]].v,
                          FieldTotal(RoundedMetrics, "metric", Len(source.results)),
                          Len(source.results))

C23_Witness ==
    /\ pc = "process_district_inspection_data" /\ Returned
    /\ Len(source.results) = 2
    /\ SourceMetric(1) = 6004 /\ SourceMetric(2) = 6000
    /\ TotalVisits(source.results[2]) > TotalVisits(source.results[1])
    /\ primary = <<1, 2>> /\ order = <<2, 1>>
    /\ ret.value.blocks[2].total_visit_marks = FloatV(6000)

\* C24: an aggregator changes nothing in the response but the fractional
\* fields of its records: the collection keeps its length and its order,
\* every record keeps its fields, every integer and string field (group_name
\* included) keeps its value, a fractional field stays fractional, and the
\* other keys of the response are as supplied.
C24_OnlyFractionalFieldsChange ==
    pc \in Aggregators =>
        /\ DOMAIN data = DOMAIN source
        /\ \A k \in DOMAIN source : k # "results" => data[k] = source[k]
        /\ Accepted =>
               /\ Len(data.results) = Len(source.results)
               /\ \A i \in 1..Len(source.results) :
                      LET before == source.results[i]
                          after == data.results[i]
                      IN  /\ DOMAIN after = DOMAIN before
                          /\ \A k \in DOMAIN before :
                                 IF before[k].t = "float"
                                 THEN after[k].t = "float"
                                 ELSE after[k] = before[k]

C24_Witness ==
    /\ pc = "process_state_inspection_data" /\ Returned
    /\ Len(source.results) = 2
    /\ source.results[1].total_visit_marks = FloatV(6004)
    /\ data.results[1].total_visit_marks = FloatV(6000)
    /\ source.results[2].dpc_ws_visited = IntV(3)
    /\ data.results[2].dpc_ws_visited = IntV(3)
    /\ data.results[2].group_name = source.results[2].group_name

\* The best and the worst block of a district summary: name and metric
Summary == ret.value.district_summary
Best ==
    IF module = "zero"
    THEN <<Summary.best_performing_block, Summary.best_zero_attendance_percentage>>
    ELSE <<Summary.highest_performing_block, Summary.highest_total_marks>>
Worst ==
    IF module = "zero"
    THEN <<Summary.worst_performing_block, Summary.worst_zero_attendance_percentage>>
    ELSE <<Summary.lowest_performing_block, Summary.lowest_total_marks>>

\* C25: for a non-empty child collection each district aggregator returns
\* blocks holding every input record once (as normalized), ordered in the
\* direction of its pipeline (descending metric for inspection and work
\* management, ascending for zero muster), total_blocks equal to the
\* number of input records, the best/highest name and metric taken from the
\* first block and the worst/lowest from the last.
C25_BlocksRankedBestFirst ==
    (pc \in DistrictAggregators /\ Accepted /\ Len(source.results) > 0) =>
        /\ Returned
        /\ LET blocks == ret.value.blocks
               n == Len(source.results)
           IN  /\ Len(blocks) = n
               /\ Summary.total_blocks = n
               /\ Len(order) = n /\ {order[p] : p \in 1..n} = 1..n
               /\ \A p \in 1..n :
                      /\ blocks[p].group_name = source.results[order[p]].group_name
                      /\ blocks[p][PrimaryMetric].v = Round2(SourceMetric(order[p]))
               /\ \A p \in 1..(n - 1) :
                      IF module = "zero"
                      THEN blocks[p][PrimaryMetric].v <= blocks[p + 1][PrimaryMetric].v
                      ELSE blocks[p][PrimaryMetric].v >= blocks[p + 1][PrimaryMetric].v
               /\ Best = <<blocks[1].group_name, blocks[1][PrimaryMetric]>>
               /\ Worst = <<blocks[n].group_name, blocks[n][PrimaryMetric]>>

C25_Witness ==
    /\ pc = "process_district_work_data" /\ Returned
    /\ Len(source.results) = 3
    /\ order = <<3, 1, 2>>
    /\ Best # Worst
    /\ Summary.total_blocks = 3

\* The report file main writes for the run's output format
ReportFile == IF output_format = "json" THEN "report.json" ELSE "report.txt"

\* The narrative request of the run has returned an answer
Answered ==
    /\ Len(trace) >= 6
    /\ trace[6].op = "generate-report" /\ trace[6].answered
    /\ requests = 1

\* C26: in a successful run the files written are, in this order, the
\* thinking file (only when the answer of the narrative service carries a
\* thinking part), the raw-response file and exactly one final report file;
\* the raw-response file is written only after the narrative request has
\* returned, and a run that halts or faults before that writes no file.
C26_FilesInOrder ==
    /\ Succeeded =>
           /\ Answered
           /\ files = (IF trace[6].with_thinking THEN <<"thinking">> ELSE <<>>)
                      \o <<"response", ReportFile>>
    /\ files # <<>> =>
           /\ Answered
           /\ trace[6].result = "return"
           /\ "response" \in Written
           /\ ("thinking" \in Written) = trace[6].with_thinking
    /\ (Written \cap ReportFiles # {}) => Succeeded
    /\ (Finished /\ ~Answered) => files = <<>>

C26_Witness ==
    /\ Succeeded
    /\ output_format = "text"
    /\ files = <<"thinking", "response", "report.txt">>

\* C27: the inspection tie-break pass never breaks the primary ordering, at
\* state and at district level: the final ranked sequence holds every input
\* record once, is non-increasing in total_visit_marks, and carries at every
\* place the marks the primary sort had put there, since only records with
\* equal marks are exchanged.
C27_TieBreakKeepsPrimaryOrder ==
    InspectionSorted =>
        LET n == Len(source.results)
        IN  /\ Len(order) = n /\ {order[p] : p \in 1..n} = 1..n
            /\ Len(primary) = n /\ {primary[p] : p \in 1..n} = 1..n
            /\ \A p \in 1..n : Metric(order[p]) = Metric(primary[p])
            /\ \A p \in 1..(n - 1) : Metric(order[p]) >= Metric(order[p + 1])

C27_Witness ==
    /\ pc = "process_district_inspection_data" /\ Returned
    /\ Len(source.results) = 3
    /\ order # primary
    /\ Metric(order[1]) > Metric(order[3])
    /\ TotalVisits(data.results[order[2]]) < TotalVisits(data.results[order[3]])

\* The visit sums of the records that share the marks m
VisitsAt(m) ==
    {TotalVisits(data.results[i]) :
        i \in {j \in 1..Len(data.results) : Metric(j) = m}}

StateInspectionReturned == pc = "process_state_inspection_data" /\ Returned

EntityStagesSucceeded ==
    /\ Len(trace) >= 4
    /\ trace[4].op \in DistrictAggregators /\ trace[4].result = "return"
    /\ stage # "aggregate-entity"

\* The places of the state collection that carry the target's name
TargetPlaces ==
    {i \in 1..Len(state_data.results) : state_data.results[i].group_name = district}

\* C29: when the target district names no record of the state collection
\* and the entity fetch and aggregation succeed, main does not halt at
\* locate-target: it goes on to generate-report (and from there, when the
\* narrative comes back, to persist-output) with state_rank None and
\* district_info None in the entity summary.
C29_AbsentTargetGoesOn ==
    (EntityStagesSucceeded /\ TargetPlaces = {}) =>
        /\ Len(trace) >= 5
        /\ trace[5] = [op |-> "locate-target", result |-> "return"]
        /\ stage \in {"generate-report", "persist-output", "done"}
        /\ Finished => Len(trace) >= 6
        /\ result.district_data.district_name = district
        /\ result.district_data.state_rank = None
        /\ result.district_data.district_info = None
        /\ (Finished /\ trace[6].result = "return") => Succeeded

C29_Witness ==
    /\ Succeeded
    /\ district = StrV("Z") /\ output_format = "json"
    /\ TargetPlaces = {}
    /\ outcome.value.district_data.state_rank = None
    /\ outcome.value.district_data.district_info = None
    /\ "report.json" \in Written

\* main has filled in the entity summary for a target the state collection lists
TargetLocated ==
    /\ Len(trace) >= 5 /\ trace[5].op = "locate-target"
    /\ TargetPlaces # {}

\* The final ranked sequence of the state aggregation, as places of the
\* state collection, and the place in it of the record at place i
StateRanked == trace[2].ranked
RankOf(i) == Position(StateRanked, i)

\* The place in the state collection of the record reported as district_info
InfoPlace == MinOf(TargetPlaces)

\* C30 as stated: state_rank is the 1-based position, in the final ranked
\* state sequence, of the very record reported as district_info, and lies in
\* 1..total_districts, also when several records carry the target's name.
C30_RankOfReportedRecord ==
    TargetLocated =>
        /\ result.district_data.district_info = state_data.results[InfoPlace]
        /\ result.district_data.state_rank = IntV(RankOf(InfoPlace))
        /\ RankOf(InfoPlace) \in 1..result.district_data.total_districts

\* C30 amended: district_info is the first record of the state collection,
\* in input order, that carries the target's name; state_rank is the
\* position in the final ranked sequence of the lowest-ranked record that
\* carries the name, and lies in 1..total_districts. The two are the same
\* record when one record only carries the name.
C30_RankOfLastNamedRecord ==
    TargetLocated =>
        LET summary == result.district_data
            rank == MaxOf({RankOf(i) : i \in TargetPlaces})
        IN  /\ summary.district_info = state_data.results[InfoPlace]
            /\ summary.district_info.group_name = district
            /\ summary.state_rank = IntV(rank)
            /\ summary.total_districts = Len(state_data.results)
            /\ rank \in 1..summary.total_districts
            /\ state_data.results[StateRanked[rank]].group_name = district
            /\ Cardinality(TargetPlaces) = 1 =>
                   summary.state_rank = IntV(RankOf(InfoPlace))

C30_Witness ==
    /\ Succeeded
    /\ module = "work"
    /\ Cardinality(TargetPlaces) = 2
    /\ StateRanked = <<1, 2>>
    /\ result.district_data.state_rank = IntV(2)
    /\ result.district_data.district_info = state_data.results[1]
    /\ state_data.results[1] # state_data.results[2]

====
